---- MODULE Spec2Model ----
(***************************************************************************)
(* Model of LMStudioPerformanceTester (src/lm_studio_tester.py) and of the *)
(* callers in src/main.py.                                                 *)
(*                                                                         *)
(* Time is counted in ticks of 0.1 s, the length of both fixed delays of   *)
(* the code (psutil.cpu_percent(interval=0.1) and time.sleep(0.1)).        *)
(* Thread 0 is the main thread; threads 1..MaxConcurrent are the worker    *)
(* threads of concurrent_inference_test.  Every step of a thread between   *)
(* two accesses to shared state (metrics_history, results, the clock, the  *)
(* backend) is one action, so that every interleaving the interpreter can  *)
(* produce is a behaviour of the model.                                    *)
(***************************************************************************)
EXTENDS Integers, Sequences, FiniteSets, TLC

\* ---------------------------------------------------------------- bounds
MaxConcurrent == 2      \* largest num_concurrent tried
MaxDuration == 4        \* largest duration_seconds tried, in ticks
MaxTime == 3            \* the clock runs freely up to this tick
MaxRequests == 2        \* requests issued on one tester instance
MaxTokens == 1          \* largest completion_tokens the backend reports
MaxSamples == 3         \* longest store the aggregator is tried on

\* ------------------------------------------------------ program constants
TicksPerSecond == 10    \* one tick is 0.1 s
CpuInterval == 1        \* psutil.cpu_percent(interval=0.1): one tick
StressSleep == 1        \* time.sleep(0.1) in stress_test: one tick
BatchSleep == 5         \* time.sleep(0.5) in batch_inference_test: five ticks
HttpOk == 200           \* the status code single_inference_test accepts
HttpError == 500        \* a representative non-200 status
PromptTokens == 1       \* prompt_tokens of the fixed prompt
MemoryMb == 2048        \* reading of psutil.virtual_memory(), in MB
CpuPercent == 5         \* reading of psutil.cpu_percent()
SampleGap == 4 * TicksPerSecond   \* time between two stored samples: four seconds

MainThread == 0
Workers == 1..MaxConcurrent
Threads == {MainThread} \cup Workers

\* Python's None
None == [none |-> TRUE]

VARIABLES
    now,              \* time.time() / datetime.now(), in ticks
    metrics_history,  \* self.metrics_history
    call,             \* per thread: the frame of single_inference_test
    sent,             \* number of POST requests issued so far
    inflight,         \* ids of the requests the backend has not answered
    mainpc,           \* position of the main thread
    wpc,              \* per worker thread: position in worker()
    results,          \* local list `results` of the running test method
    num_concurrent,   \* argument of concurrent_inference_test
    threads,          \* local list `threads` of concurrent_inference_test
    joined,           \* number of threads the join loop has passed
    duration_seconds, \* argument of stress_test, in ticks
    start_time,       \* local start_time of the running test method
    request_count,    \* local request_count of stress_test
    wake,             \* end of the main thread's time.sleep
    total_time,       \* local total_time of the running test method
    ret,              \* value(s) returned to the caller, as a tuple
    budget,           \* requests the remaining runs may still issue
    base,             \* len(self.metrics_history) when the running test method began
    sent_base,        \* value of `sent` when the running test method began
    report_lists,     \* samples the lists of generate_performance_report were read from
    output,           \* what the running operation printed or wrote to its file
    prompts,          \* argument of batch_inference_test
    batch_i           \* loop counter i of batch_inference_test (enumerate from 1)

vars == <<now, metrics_history, call, sent, inflight, mainpc, wpc, results,
          num_concurrent, threads, joined, duration_seconds, start_time,
          request_count, wake, total_time, ret, budget, base, sent_base, report_lists, output,
          prompts, batch_i>>

orchVars == <<wpc, num_concurrent, threads, joined>>
stressVars == <<duration_seconds, request_count, wake>>
batchVars == <<prompts, batch_i>>

\* -------------------------------------------------------------- helpers
RECURSIVE GCD(_, _)
GCD(a, b) == IF b = 0 THEN a ELSE GCD(b, a % b)

\* a / b as a reduced fraction (Python float division of two numbers)
Div(a, b) == LET g == GCD(a, b) IN <<a \div g, b \div g>>

\* the frame of a thread that is not inside single_inference_test
IdleFrame == [pc |-> "idle", start_time |-> 0, end_time |-> 0, wake |-> 0,
              req |-> 0, status |-> 0, usage |-> None, metrics |-> None,
              ret |-> None]

\* the frame of a call that has returned v: only the return value is left
Returned(v) == [IdleFrame EXCEPT !.pc = "returned", !.ret = v]

\* data.get('usage', {}) with .get(key, 0) on each counter
UsageGet(usage, key) == IF usage = None THEN 0 ELSE usage[key]

\* the bodies a 200 response can carry: no usage object, or one with counters
Usages == {None} \cup
          {[prompt_tokens |-> PromptTokens, completion_tokens |-> c,
            total_tokens |-> PromptTokens + c] : c \in 0..MaxTokens}

\* a variant with floor division (`//`) in place of `/`
TokensPerSecondFloor(completion_tokens, response_time) ==
    IF response_time > 0
    THEN <<(completion_tokens * TicksPerSecond) \div response_time, 1>>
    ELSE <<0, 1>>

\* tokens_per_second = completion_tokens / response_time if response_time > 0 else 0
\* (response_time in ticks, the rate in tokens per second)
TokensPerSecond(completion_tokens, response_time) ==
    IF response_time > 0
    THEN Div(completion_tokens * TicksPerSecond, response_time)
    ELSE <<0, 1>>

\* the __init__ the dataclass decorator generates: every argument is stored
\* in the field of its name, as given
PerformanceMetricsInit(response_time, tokens_per_second, total_tokens, prompt_tokens, completion_tokens, memory_usage, cpu_usage, timestamp) ==
    [response_time |-> response_time,
     tokens_per_second |-> tokens_per_second,
     total_tokens |-> total_tokens,
     prompt_tokens |-> prompt_tokens,
     completion_tokens |-> completion_tokens,
     memory_usage |-> memory_usage,
     cpu_usage |-> cpu_usage,
     timestamp |-> timestamp]

\* PerformanceMetrics(...) as built by single_inference_test; id is the
\* identity of the object (one object per answered request)
PerformanceMetrics(f, t) ==
    LET response_time == f.end_time - f.start_time
        completion_tokens == UsageGet(f.usage, "completion_tokens")
    IN [id |-> f.req] @@
       PerformanceMetricsInit(response_time,
                              TokensPerSecond(completion_tokens, response_time),
                              UsageGet(f.usage, "total_tokens"),
                              UsageGet(f.usage, "prompt_tokens"),
                              completion_tokens, MemoryMb, CpuPercent, t)

\* a variant whose write lands on the slot of the previous append (lost update)
ListAppendLossy(lst, x) ==
    IF Len(lst) > 0 THEN [lst EXCEPT ![Len(lst)] = x] ELSE <<x>>

\* a variant that inserts at the front (`insert(0, x)`)
ListPrepend(lst, x) == <<x>> \o lst

\* list.append(x): atomic in the interpreter
ListAppend(lst, x) == Append(lst, x)

\* a variant without the `if metrics` test
CollectAlways(lst, m) == ListAppend(lst, m)

\* `if metrics: results.append(metrics)`
Collect(lst, m) == IF m # None THEN ListAppend(lst, m) ELSE lst

\* entry of single_inference_test: start_time = time.time(), then
\* get_system_metrics() blocks for the cpu_percent interval
EnterCall == [IdleFrame EXCEPT !.pc = "sysm_before", !.start_time = now,
                               !.wake = now + CpuInterval]

Sleeping == \/ \E t \in Threads :
                   call[t].pc \in {"sysm_before", "sysm_after"} /\ call[t].wake > now
            \/ mainpc \in {"stress_sleep", "batch_sleep"} /\ wake > now

\* ------------------------------------------------------------------ Init
Init ==
    /\ now = 0
    /\ metrics_history = <<>>
    /\ call = [t \in Threads |-> IdleFrame]
    /\ sent = 0
    /\ inflight = {}
    /\ mainpc = "idle"
    /\ wpc = [w \in Workers |-> "none"]
    /\ results = <<>>
    /\ num_concurrent = 0
    /\ threads = <<>>
    /\ joined = 0
    /\ duration_seconds = 0
    /\ start_time = 0
    /\ request_count = 0
    /\ wake = 0
    /\ total_time = 0
    /\ ret = <<>>
    /\ budget = MaxRequests
    /\ base = 0
    /\ sent_base = sent
    /\ report_lists = <<>>
    /\ output = <<>>
    /\ prompts = <<>>
    /\ batch_i = 0

\* ------------------------------------------------------------- the clock
Tick ==
    /\ now < MaxTime \/ Sleeping
    /\ now' = now + 1
    /\ UNCHANGED <<metrics_history, call, sent, inflight, mainpc, wpc, results,
                   num_concurrent, threads, joined, duration_seconds,
                   start_time, request_count, wake, total_time, ret, budget, base, sent_base, report_lists, output,
                   prompts, batch_i>>

\* ------------------------------------------------- single_inference_test
callerVars == <<now, mainpc, wpc, results, num_concurrent, threads, joined,
               duration_seconds, start_time, request_count, wake, total_time,
               ret, budget, base, sent_base, report_lists, output,
               prompts, batch_i>>

\* get_system_metrics() has returned; the payload is built and posted
Post(t) ==
    /\ call[t].pc = "sysm_before"
    /\ now >= call[t].wake
    /\ sent' = sent + 1
    /\ inflight' = inflight \cup {sent + 1}
    /\ call' = [call EXCEPT ![t].pc = "inflight", ![t].req = sent + 1]
    /\ UNCHANGED <<metrics_history>>
    /\ UNCHANGED callerVars

\* session.post returns a response: end_time = time.time(), then
\* get_system_metrics() blocks again
Respond(t) ==
    /\ call[t].pc = "inflight"
    /\ \E status \in {HttpOk, HttpError} :
       \E usage \in IF status = HttpOk THEN Usages ELSE {None} :
          call' = [call EXCEPT ![t].pc = "sysm_after", ![t].end_time = now,
                               ![t].wake = now + CpuInterval,
                               ![t].status = status, ![t].usage = usage]
    /\ inflight' = inflight \ {call[t].req}
    /\ UNCHANGED <<metrics_history, sent>>
    /\ UNCHANGED callerVars

\* session.post raises a RequestException (connection error or the 60 s
\* timeout): `except` prints and returns None
RequestException(t) ==
    /\ call[t].pc = "inflight"
    /\ call' = [call EXCEPT ![t] = Returned(None)]
    /\ inflight' = inflight \ {call[t].req}
    /\ UNCHANGED <<metrics_history, sent>>
    /\ UNCHANGED callerVars

\* a variant that does not wait for the second get_system_metrics()
ConstructNoResample(t) ==
    /\ call[t].pc = "sysm_after"
    /\ call[t].status = HttpOk
    /\ call' = [call EXCEPT ![t].pc = "append",
                            ![t].metrics = PerformanceMetrics(call[t], now)]
    /\ UNCHANGED <<metrics_history, sent, inflight>>
    /\ UNCHANGED callerVars

\* status 200: the sample is constructed, timestamp = datetime.now()
Construct(t) ==
    /\ call[t].pc = "sysm_after"
    /\ now >= call[t].wake
    /\ call[t].status = HttpOk
    /\ call' = [call EXCEPT ![t].pc = "append",
                            ![t].metrics = PerformanceMetrics(call[t], now)]
    /\ UNCHANGED <<metrics_history, sent, inflight>>
    /\ UNCHANGED callerVars

\* a variant that posts the request again after a status other than 200
ApiFailureRetry(t) ==
    /\ call[t].pc = "sysm_after"
    /\ now >= call[t].wake
    /\ call[t].status # HttpOk
    /\ call' = [call EXCEPT ![t].pc = "sysm_before", ![t].status = 0]
    /\ UNCHANGED <<metrics_history, sent, inflight>>
    /\ UNCHANGED callerVars

\* a variant that stores a placeholder for the failed request
ApiFailureStoresPlaceholder(t) ==
    /\ call[t].pc = "sysm_after"
    /\ now >= call[t].wake
    /\ call[t].status # HttpOk
    /\ call' = [call EXCEPT ![t] = Returned(None)]
    /\ metrics_history' = Append(metrics_history, None)
    /\ UNCHANGED <<sent, inflight>>
    /\ UNCHANGED callerVars

\* status other than 200: prints and returns None
ApiFailure(t) ==
    /\ call[t].pc = "sysm_after"
    /\ now >= call[t].wake
    /\ call[t].status # HttpOk
    /\ call' = [call EXCEPT ![t] = Returned(None)]
    /\ UNCHANGED <<metrics_history, sent, inflight>>
    /\ UNCHANGED callerVars

\* a variant that stores the sample but returns a fresh copy of it
StoreAndReturnCopy(t) ==
    /\ call[t].pc = "append"
    /\ metrics_history' = ListAppend(metrics_history, call[t].metrics)
    /\ call' = [call EXCEPT ![t] = Returned([call[t].metrics EXCEPT !.id = 0])]
    /\ UNCHANGED <<sent, inflight>>
    /\ UNCHANGED callerVars

\* self.metrics_history.append(metrics); return metrics
StoreAndReturn(t) ==
    /\ call[t].pc = "append"
    /\ metrics_history' = ListAppend(metrics_history, call[t].metrics)
    /\ call' = [call EXCEPT ![t] = Returned(call[t].metrics)]
    /\ UNCHANGED <<sent, inflight>>
    /\ UNCHANGED callerVars

\* ------------------------------------------------ run_single_test (main.py)
StartSingle ==
    /\ mainpc = "idle"
    /\ budget >= 1
    /\ now <= MaxTime
    /\ budget' = budget - 1
    /\ base' = Len(metrics_history)
    /\ sent_base' = sent
    /\ report_lists' = <<>>
    /\ output' = <<>>
    /\ mainpc' = "single_call"
    /\ call' = [call EXCEPT ![MainThread] = EnterCall]
    /\ ret' = <<>>
    /\ UNCHANGED <<now, metrics_history, sent, inflight, results, start_time,
                   total_time>>
    /\ UNCHANGED orchVars
    /\ UNCHANGED stressVars
    /\ UNCHANGED batchVars

SingleReturn ==
    /\ mainpc = "single_call"
    /\ call[MainThread].pc = "returned"
    /\ ret' = <<call[MainThread].ret>>
    /\ call' = [call EXCEPT ![MainThread] = IdleFrame]
    /\ mainpc' = "single_returned"
    /\ UNCHANGED <<now, metrics_history, sent, inflight, results, start_time,
                   total_time, budget, base, sent_base, report_lists, output>>
    /\ UNCHANGED orchVars
    /\ UNCHANGED stressVars
    /\ UNCHANGED batchVars

\* ------------------------------------------- concurrent_inference_test
\* results = []; threads = []; start_time = time.time()
StartConcurrent ==
    /\ mainpc = "idle"
    /\ now <= MaxTime
    /\ \E n \in 0..MaxConcurrent :
          /\ n <= budget
          /\ num_concurrent' = n
          /\ budget' = budget - n
    /\ results' = <<>>
    /\ threads' = <<>>
    /\ joined' = 0
    /\ start_time' = now
    /\ base' = Len(metrics_history)
    /\ sent_base' = sent
    /\ report_lists' = <<>>
    /\ output' = <<>>
    /\ mainpc' = "conc_spawn"
    /\ ret' = <<>>
    /\ UNCHANGED <<now, metrics_history, call, sent, inflight, wpc, total_time>>
    /\ UNCHANGED stressVars
    /\ UNCHANGED batchVars

\* for i in range(num_concurrent): thread = Thread(target=worker);
\* threads.append(thread); thread.start()
Spawn ==
    /\ mainpc = "conc_spawn"
    /\ Len(threads) < num_concurrent
    /\ LET w == Len(threads) + 1 IN
          /\ threads' = Append(threads, w)
          /\ wpc' = [wpc EXCEPT ![w] = "started"]
    /\ UNCHANGED <<now, metrics_history, call, sent, inflight, mainpc, results,
                   num_concurrent, joined, start_time, total_time, ret, budget, base, sent_base, report_lists, output>>
    /\ UNCHANGED stressVars
    /\ UNCHANGED batchVars

\* the start loop is exhausted; the join loop begins
SpawnDone ==
    /\ mainpc = "conc_spawn"
    /\ Len(threads) = num_concurrent
    /\ mainpc' = "conc_join"
    /\ UNCHANGED <<now, metrics_history, call, sent, inflight, results,
                   start_time, total_time, ret, budget, base, sent_base, report_lists, output>>
    /\ UNCHANGED orchVars
    /\ UNCHANGED stressVars
    /\ UNCHANGED batchVars

\* worker(): metrics = self.single_inference_test(prompt, max_tokens)
WorkerCall(w) ==
    /\ wpc[w] = "started"
    /\ wpc' = [wpc EXCEPT ![w] = "calling"]
    /\ call' = [call EXCEPT ![w] = EnterCall]
    /\ UNCHANGED <<now, metrics_history, sent, inflight, mainpc, results,
                   num_concurrent, threads, joined, start_time, total_time,
                   ret, budget, base, sent_base, report_lists, output>>
    /\ UNCHANGED stressVars
    /\ UNCHANGED batchVars

\* a variant that rebinds the list to the one sample (`results = [metrics]`)
WorkerCollectRebind(w) ==
    /\ wpc[w] = "calling"
    /\ call[w].pc = "returned"
    /\ results' = IF call[w].ret # None THEN <<call[w].ret>> ELSE results
    /\ wpc' = [wpc EXCEPT ![w] = "finished"]
    /\ UNCHANGED <<now, metrics_history, call, sent, inflight, mainpc,
                   num_concurrent, threads, joined, start_time, total_time,
                   ret, budget, base, sent_base, report_lists, output>>
    /\ UNCHANGED stressVars
    /\ UNCHANGED batchVars

\* worker(): if metrics: results.append(metrics); the thread ends
WorkerCollect(w) ==
    /\ wpc[w] = "calling"
    /\ call[w].pc = "returned"
    /\ results' = Collect(results, call[w].ret)
    /\ wpc' = [wpc EXCEPT ![w] = "finished"]
    /\ UNCHANGED <<now, metrics_history, call, sent, inflight, mainpc,
                   num_concurrent, threads, joined, start_time, total_time,
                   ret, budget, base, sent_base, report_lists, output>>
    /\ UNCHANGED stressVars
    /\ UNCHANGED batchVars

\* a variant in which join() does not wait for the thread
JoinNoWait(w) == wpc[w] # "none"

\* thread.join() returns once that thread has ended
JoinReady(w) == wpc[w] = "finished"

\* a fail-fast variant: the join loop is abandoned once a worker has failed
JoinFailFast ==
    /\ mainpc = "conc_join"
    /\ joined < Len(threads)
    /\ \/ JoinReady(threads[joined + 1])
       \/ \E v \in Workers : wpc[v] = "finished" /\ call[v].ret = None
    /\ joined' = joined + 1
    /\ UNCHANGED <<now, metrics_history, call, sent, inflight, mainpc, wpc,
                   results, num_concurrent, threads, start_time, total_time,
                   ret, budget, base, sent_base, report_lists, output>>
    /\ UNCHANGED stressVars
    /\ UNCHANGED batchVars

\* for thread in threads: thread.join()
Join ==
    /\ mainpc = "conc_join"
    /\ joined < Len(threads)
    /\ JoinReady(threads[joined + 1])
    /\ joined' = joined + 1
    /\ UNCHANGED <<now, metrics_history, call, sent, inflight, mainpc, wpc,
                   results, num_concurrent, threads, start_time, total_time,
                   ret, budget, base, sent_base, report_lists, output>>
    /\ UNCHANGED stressVars
    /\ UNCHANGED batchVars

\* the join loop is exhausted: total_time, the summary line, return results
ConcurrentReturn ==
    /\ mainpc = "conc_join"
    /\ joined = Len(threads)
    /\ total_time' = now - start_time
    /\ ret' = <<results>>
    /\ mainpc' = "conc_returned"
    /\ UNCHANGED <<now, metrics_history, call, sent, inflight, results,
                   start_time, budget, base, sent_base, report_lists, output>>
    /\ UNCHANGED orchVars
    /\ UNCHANGED stressVars
    /\ UNCHANGED batchVars

\* ------------------------------------------------------------ stress_test
\* an iteration of the loop lasts at least CpuInterval + StressSleep ticks, so
\* a run of duration d attempts at most this many requests
MaxAttempts(d) == (d + CpuInterval + StressSleep - 1) \div (CpuInterval + StressSleep)

\* duration_seconds is any int the caller passes: -1 stands for the negative
\* ones, for which the loop condition is false from the start as it is for 0
Durations == -1..MaxDuration

\* a variant that starts every stress run on an empty store
StartStressFresh ==
    /\ mainpc = "idle"
    /\ now <= MaxTime
    /\ \E d \in Durations :
          /\ MaxAttempts(d) <= budget
          /\ duration_seconds' = d
          /\ budget' = budget - MaxAttempts(d)
    /\ metrics_history' = <<>>
    /\ results' = <<>>
    /\ start_time' = now
    /\ request_count' = 0
    /\ base' = 0
    /\ sent_base' = sent
    /\ report_lists' = <<>>
    /\ output' = <<>>
    /\ mainpc' = "stress_top"
    /\ ret' = <<>>
    /\ UNCHANGED <<now, call, sent, inflight, wake, total_time>>
    /\ UNCHANGED orchVars
    /\ UNCHANGED batchVars

\* results = []; start_time = time.time(); request_count = 0
StartStress ==
    /\ mainpc = "idle"
    /\ now <= MaxTime
    /\ \E d \in Durations :
          /\ MaxAttempts(d) <= budget
          /\ duration_seconds' = d
          /\ budget' = budget - MaxAttempts(d)
    /\ results' = <<>>
    /\ start_time' = now
    /\ request_count' = 0
    /\ base' = Len(metrics_history)
    /\ sent_base' = sent
    /\ report_lists' = <<>>
    /\ output' = <<>>
    /\ mainpc' = "stress_top"
    /\ ret' = <<>>
    /\ UNCHANGED <<now, metrics_history, call, sent, inflight, wake, total_time>>
    /\ UNCHANGED orchVars
    /\ UNCHANGED batchVars

\* a variant that stops one tick early
DeadlineOpenEarly == now - start_time < duration_seconds - 1

\* while time.time() - start_time < duration_seconds
DeadlineOpen == now - start_time < duration_seconds

\* loop top, deadline not reached: request_count += 1 and the call begins
StressIterate ==
    /\ mainpc = "stress_top"
    /\ DeadlineOpen
    /\ request_count' = request_count + 1
    /\ call' = [call EXCEPT ![MainThread] = EnterCall]
    /\ mainpc' = "stress_call"
    /\ UNCHANGED <<now, metrics_history, sent, inflight, results,
                   duration_seconds, start_time, wake, total_time, ret, budget, base, sent_base, report_lists, output>>
    /\ UNCHANGED orchVars
    /\ UNCHANGED batchVars

\* a variant that does not wait for the call: the request is left outstanding
StressCollectNoWait ==
    /\ mainpc = "stress_call"
    /\ call[MainThread].pc \in {"inflight", "returned"}
    /\ results' = Collect(results, call[MainThread].ret)
    /\ call' = [call EXCEPT ![MainThread] = IdleFrame]
    /\ wake' = now + StressSleep
    /\ mainpc' = "stress_sleep"
    /\ UNCHANGED <<now, metrics_history, sent, inflight, duration_seconds,
                   start_time, request_count, total_time, ret, budget, base, sent_base, report_lists, output>>
    /\ UNCHANGED orchVars
    /\ UNCHANGED batchVars

\* the call has returned: if metrics: results.append(metrics); time.sleep(0.1)
StressCollect ==
    /\ mainpc = "stress_call"
    /\ call[MainThread].pc = "returned"
    /\ results' = Collect(results, call[MainThread].ret)
    /\ call' = [call EXCEPT ![MainThread] = IdleFrame]
    /\ wake' = now + StressSleep
    /\ mainpc' = "stress_sleep"
    /\ UNCHANGED <<now, metrics_history, sent, inflight, duration_seconds,
                   start_time, request_count, total_time, ret, budget, base, sent_base, report_lists, output>>
    /\ UNCHANGED orchVars
    /\ UNCHANGED batchVars

\* a variant in which the deadline interrupts the pacing delay
StressWakeAtDeadline ==
    /\ mainpc = "stress_sleep"
    /\ now >= wake \/ ~DeadlineOpen
    /\ mainpc' = "stress_top"
    /\ UNCHANGED <<now, metrics_history, call, sent, inflight, results,
                   duration_seconds, start_time, request_count, wake,
                   total_time, ret, budget, base, sent_base, report_lists, output>>
    /\ UNCHANGED orchVars
    /\ UNCHANGED batchVars

\* a variant without the pacing delay
StressWakeNoPacing ==
    /\ mainpc = "stress_sleep"
    /\ mainpc' = "stress_top"
    /\ UNCHANGED <<now, metrics_history, call, sent, inflight, results,
                   duration_seconds, start_time, request_count, wake,
                   total_time, ret, budget, base, sent_base, report_lists, output>>
    /\ UNCHANGED orchVars
    /\ UNCHANGED batchVars

\* time.sleep(0.1) is over; back to the loop top
StressWake ==
    /\ mainpc = "stress_sleep"
    /\ now >= wake
    /\ mainpc' = "stress_top"
    /\ UNCHANGED <<now, metrics_history, call, sent, inflight, results,
                   duration_seconds, start_time, request_count, wake,
                   total_time, ret, budget, base, sent_base, report_lists, output>>
    /\ UNCHANGED orchVars
    /\ UNCHANGED batchVars

\* a variant that returns the attempt count along with the samples
StressReturnWithCount ==
    /\ mainpc = "stress_top"
    /\ ~DeadlineOpen
    /\ total_time' = now - start_time
    /\ ret' = <<results, request_count>>
    /\ mainpc' = "stress_returned"
    /\ UNCHANGED <<now, metrics_history, call, sent, inflight, results,
                   duration_seconds, start_time, request_count, wake, budget, base, sent_base, report_lists, output>>
    /\ UNCHANGED orchVars
    /\ UNCHANGED batchVars

\* loop top, deadline reached: total_time, the summary line, return results
StressReturn ==
    /\ mainpc = "stress_top"
    /\ ~DeadlineOpen
    /\ total_time' = now - start_time
    /\ ret' = <<results>>
    /\ mainpc' = "stress_returned"
    /\ UNCHANGED <<now, metrics_history, call, sent, inflight, results,
                   duration_seconds, start_time, request_count, wake, budget, base, sent_base, report_lists, output>>
    /\ UNCHANGED orchVars
    /\ UNCHANGED batchVars

\* ---------------------------------------------------- batch_inference_test
\* results = []; the prompts are numbered 1..n
StartBatch ==
    /\ mainpc = "idle"
    /\ now <= MaxTime
    /\ \E n \in 0..budget :
          /\ prompts' = [k \in 1..n |-> k]
          /\ budget' = budget - n
    /\ batch_i' = 0
    /\ results' = <<>>
    /\ base' = Len(metrics_history)
    /\ sent_base' = sent
    /\ report_lists' = <<>>
    /\ output' = <<>>
    /\ mainpc' = "batch_top"
    /\ ret' = <<>>
    /\ UNCHANGED <<now, metrics_history, call, sent, inflight, start_time,
                   total_time>>
    /\ UNCHANGED orchVars
    /\ UNCHANGED stressVars

\* for i, prompt in enumerate(prompts, 1): the call for the next prompt begins
BatchIterate ==
    /\ mainpc = "batch_top"
    /\ batch_i < Len(prompts)
    /\ batch_i' = batch_i + 1
    /\ call' = [call EXCEPT ![MainThread] = EnterCall]
    /\ mainpc' = "batch_call"
    /\ UNCHANGED <<now, metrics_history, sent, inflight, results, start_time,
                   total_time, ret, budget, base, sent_base, report_lists, output, prompts>>
    /\ UNCHANGED orchVars
    /\ UNCHANGED stressVars

\* a variant that gives the batch up at the first failed request
BatchCollectStopOnFailure ==
    /\ mainpc = "batch_call"
    /\ call[MainThread].pc = "returned"
    /\ results' = Collect(results, call[MainThread].ret)
    /\ batch_i' = IF call[MainThread].ret = None THEN Len(prompts) ELSE batch_i
    /\ call' = [call EXCEPT ![MainThread] = IdleFrame]
    /\ wake' = now + BatchSleep
    /\ mainpc' = "batch_sleep"
    /\ UNCHANGED <<now, metrics_history, sent, inflight, start_time, total_time,
                   ret, budget, base, sent_base, report_lists, output,
                   duration_seconds, request_count, prompts>>
    /\ UNCHANGED orchVars

\* the call has returned: if metrics: results.append(metrics); time.sleep(0.5)
BatchCollect ==
    /\ mainpc = "batch_call"
    /\ call[MainThread].pc = "returned"
    /\ results' = Collect(results, call[MainThread].ret)
    /\ call' = [call EXCEPT ![MainThread] = IdleFrame]
    /\ wake' = now + BatchSleep
    /\ mainpc' = "batch_sleep"
    /\ UNCHANGED <<now, metrics_history, sent, inflight, start_time, total_time,
                   ret, budget, base, sent_base, report_lists, output, duration_seconds, request_count>>
    /\ UNCHANGED orchVars
    /\ UNCHANGED batchVars

\* time.sleep(0.5) is over; on to the next prompt
BatchWake ==
    /\ mainpc = "batch_sleep"
    /\ now >= wake
    /\ mainpc' = "batch_top"
    /\ UNCHANGED <<now, metrics_history, call, sent, inflight, results,
                   start_time, total_time, ret, budget, base, sent_base, report_lists, output>>
    /\ UNCHANGED orchVars
    /\ UNCHANGED stressVars
    /\ UNCHANGED batchVars

\* a variant that returns every sample of the store
BatchReturnsStore ==
    /\ mainpc = "batch_top"
    /\ batch_i = Len(prompts)
    /\ ret' = <<metrics_history>>
    /\ mainpc' = "batch_returned"
    /\ UNCHANGED <<now, metrics_history, call, sent, inflight, results,
                   start_time, total_time, budget, base, sent_base, report_lists, output>>
    /\ UNCHANGED orchVars
    /\ UNCHANGED stressVars
    /\ UNCHANGED batchVars

\* the prompts are exhausted: return results
BatchReturn ==
    /\ mainpc = "batch_top"
    /\ batch_i = Len(prompts)
    /\ ret' = <<results>>
    /\ mainpc' = "batch_returned"
    /\ UNCHANGED <<now, metrics_history, call, sent, inflight, results,
                   start_time, total_time, budget, base, sent_base, report_lists, output>>
    /\ UNCHANGED orchVars
    /\ UNCHANGED stressVars
    /\ UNCHANGED batchVars

\* ------------------------------------------- generate_performance_report
\* Numbers are exact fractions <<n, d>> with d > 0, in lowest terms.
AddQ(p, q) == Div(p[1] * q[2] + q[1] * p[2], p[2] * q[2])
SubQ(p, q) == Div(p[1] * q[2] - q[1] * p[2], p[2] * q[2])
MulQ(p, q) == Div(p[1] * q[1], p[2] * q[2])
LessQ(p, q) == p[1] * q[2] < q[1] * p[2]

\* a response_time of the model (ticks) as the number of seconds the code holds
Seconds(ticks) == Div(ticks, TicksPerSecond)

\* sum(xs), min(xs), max(xs) over a non-empty list of fractions
RECURSIVE SumQ(_)
SumQ(xs) == IF Len(xs) = 0 THEN <<0, 1>> ELSE AddQ(Head(xs), SumQ(Tail(xs)))
MinQ(xs) == CHOOSE x \in {xs[i] : i \in 1..Len(xs)} :
               \A i \in 1..Len(xs) : ~LessQ(xs[i], x)
MaxQFirst(xs) == xs[1]    \* a variant that takes the first value for the largest
MaxQ(xs) == CHOOSE x \in {xs[i] : i \in 1..Len(xs)} :
               \A i \in 1..Len(xs) : ~LessQ(x, xs[i])

\* a variant that divides by one more than the number of values
StatMeanOffByOne(xs) ==
    LET total == SumQ(xs) IN Div(total[1], total[2] * (Len(xs) + 1))

\* statistics.mean(xs)
StatMean(xs) == LET total == SumQ(xs) IN Div(total[1], total[2] * Len(xs))

\* sorted(xs)[k - 1]
Kth(xs, k) ==
    CHOOSE x \in {xs[i] : i \in 1..Len(xs)} :
       /\ Cardinality({i \in 1..Len(xs) : LessQ(xs[i], x)}) < k
       /\ Cardinality({i \in 1..Len(xs) : ~LessQ(x, xs[i])}) >= k

\* statistics.median(xs): the middle element, or the mean of the middle two
StatMedian(xs) ==
    LET n == Len(xs) IN
    IF n % 2 = 1 THEN Kth(xs, n \div 2 + 1)
    ELSE MulQ(AddQ(Kth(xs, n \div 2), Kth(xs, n \div 2 + 1)), <<1, 2>>)

\* the sample variance, whose square root statistics.stdev(xs) returns
RECURSIVE SumSquaredDev(_, _)
SumSquaredDev(xs, c) ==
    IF Len(xs) = 0 THEN <<0, 1>>
    ELSE LET dev == SubQ(Head(xs), c)
         IN AddQ(MulQ(dev, dev), SumSquaredDev(Tail(xs), c))
StatVariance(xs) ==
    LET ss == SumSquaredDev(xs, StatMean(xs)) IN Div(ss[1], ss[2] * (Len(xs) - 1))

RECURSIVE Pow10(_)
Pow10(k) == IF k = 0 THEN 1 ELSE 10 * Pow10(k - 1)

\* the largest r with r * r <= n, by bisection of lo..hi
RECURSIVE ISqrtIn(_, _, _)
ISqrtIn(n, lo, hi) ==
    IF hi - lo <= 1 THEN lo
    ELSE LET mid == (lo + hi) \div 2
         IN IF mid * mid <= n THEN ISqrtIn(n, mid, hi) ELSE ISqrtIn(n, lo, mid)
ISqrt(n) == ISqrtIn(n, 0, IF n < 46340 THEN n + 1 ELSE 46341)

\* a / b rounded to the nearest integer (a >= 0, b > 0)
RoundDiv(a, b) == (2 * a + b) \div (2 * b)

\* f"{q:.<decimals>f}<unit>": the digits of q rounded to that many decimals,
\* held as the integer q * 10^decimals, and the unit text after them
Format(q, decimals, unit) ==
    [digits |-> RoundDiv(q[1] * Pow10(decimals), q[2]),
     decimals |-> decimals, unit |-> unit]

\* the same for the square root of q: the integer nearest to
\* sqrt(q) * 10^decimals is (ISqrt(4 * q * 10^(2 * decimals)) + 1) \div 2
FormatRoot(q, decimals, unit) ==
    LET scale == 4 * Pow10(2 * decimals)
        g == GCD(scale, q[2])
    IN [digits |-> (ISqrt(((scale \div g) * q[1]) \div (q[2] \div g)) + 1) \div 2,
        decimals |-> decimals, unit |-> unit]

\* a variant without the `len(xs) > 1` test: statistics.stdev raises
\* StatisticsError on fewer than two values
FormatStdevUnguarded(xs, decimals, unit) ==
    IF Len(xs) > 1 THEN FormatRoot(StatVariance(xs), decimals, unit)
    ELSE [raised |-> "StatisticsError"]

\* f"{statistics.stdev(xs) if len(xs) > 1 else 0:.3f}s"
FormatStdev(xs, decimals, unit) ==
    IF Len(xs) > 1 THEN FormatRoot(StatVariance(xs), decimals, unit)
    ELSE Format(<<0, 1>>, decimals, unit)

\* {"error": "没有性能数据"}
ErrorReport == [error |-> "no performance data"]

\* generate_performance_report over the store h.  The keys of the source are
\*   overview: 测试概览 (total_requests 总请求数, time_range 测试时间范围)
\*   response_time: 响应时间统计 (平均值, 中位数, 最小值, 最大值, 标准差)
\*   throughput: 吞吐量统计 (平均TPS, 最大TPS, 最小TPS)
\*   system: 系统资源 (平均内存使用, 平均CPU使用率, 最大内存使用, 最大CPU使用率)
\*   tokens: Token统计 (总生成Token数, 平均每次生成Token数, 总处理Token数)
GeneratePerformanceReport(h) ==
    IF Len(h) = 0 THEN ErrorReport
    ELSE
    LET idx == 1..Len(h)
        response_times == [i \in idx |-> Seconds(h[i].response_time)]
        tokens_per_second == [i \in idx |-> h[i].tokens_per_second]
        memory_usage == [i \in idx |-> <<h[i].memory_usage, 1>>]
        cpu_usage == [i \in idx |-> <<h[i].cpu_usage, 1>>]
        completion == [i \in idx |-> <<h[i].completion_tokens, 1>>]
        total == [i \in idx |-> <<h[i].total_tokens, 1>>]
    IN [overview |->
           [total_requests |-> Len(h),
            time_range |-> <<h[1].timestamp, h[Len(h)].timestamp>>],
        response_time |->
           [mean |-> Format(StatMean(response_times), 3, "s"),
            median |-> Format(StatMedian(response_times), 3, "s"),
            min |-> Format(MinQ(response_times), 3, "s"),
            max |-> Format(MaxQ(response_times), 3, "s"),
            stdev |-> FormatStdev(response_times, 3, "s")],
        throughput |->
           [mean |-> Format(StatMean(tokens_per_second), 2, " tokens/s"),
            max |-> Format(MaxQ(tokens_per_second), 2, " tokens/s"),
            min |-> Format(MinQ(tokens_per_second), 2, " tokens/s")],
        system |->
           [mean_memory |-> Format(StatMean(memory_usage), 1, " MB"),
            mean_cpu |-> Format(StatMean(cpu_usage), 1, "%"),
            max_memory |-> Format(MaxQ(memory_usage), 1, " MB"),
            max_cpu |-> Format(MaxQ(cpu_usage), 1, "%")],
        tokens |->
           [total_completion |-> SumQ(completion)[1],
            mean_completion |-> Format(StatMean(completion), 1, ""),
            total_tokens |-> SumQ(total)[1]]]

\* the operations below read the store; they change none of these
readFrame == <<now, metrics_history, call, sent, inflight, results, start_time,
               total_time, budget, base, sent_base, report_lists>>

\* a caller invokes generate_performance_report() and gets its value
GenerateReport ==
    /\ mainpc = "idle"
    /\ ret' = <<GeneratePerformanceReport(metrics_history)>>
    /\ mainpc' = "report_returned"
    /\ UNCHANGED output
    /\ UNCHANGED readFrame
    /\ UNCHANGED orchVars
    /\ UNCHANGED stressVars
    /\ UNCHANGED batchVars

\* a variant without the `if "error" in report` test
PrintReportNoErrorTest ==
    /\ mainpc = "idle"
    /\ output' = <<[kind |-> "banner"],
                   [kind |-> "sections",
                    report |-> GeneratePerformanceReport(metrics_history)]>>
    /\ ret' = <<None>>
    /\ mainpc' = "print_returned"
    /\ UNCHANGED readFrame
    /\ UNCHANGED orchVars
    /\ UNCHANGED stressVars
    /\ UNCHANGED batchVars

\* print_report(): the error line and nothing more, or the banner and every
\* section of the report
PrintReport ==
    /\ mainpc = "idle"
    /\ LET report == GeneratePerformanceReport(metrics_history) IN
          output' = IF "error" \in DOMAIN report
                    THEN <<[kind |-> "error", text |-> report.error]>>
                    ELSE <<[kind |-> "banner"], [kind |-> "sections", report |-> report]>>
    /\ ret' = <<None>>
    /\ mainpc' = "print_returned"
    /\ UNCHANGED readFrame
    /\ UNCHANGED orchVars
    /\ UNCHANGED stressVars
    /\ UNCHANGED batchVars

\* the dict save_detailed_results builds for one sample
DetailedMetric(m) ==
    [timestamp |-> m.timestamp,
     response_time |-> m.response_time,
     tokens_per_second |-> m.tokens_per_second,
     total_tokens |-> m.total_tokens,
     prompt_tokens |-> m.prompt_tokens,
     completion_tokens |-> m.completion_tokens,
     memory_usage |-> m.memory_usage,
     cpu_usage |-> m.cpu_usage]

\* a variant that empties the store once it is saved
SaveDetailedResultsAndClear ==
    /\ mainpc \in {"idle", "print_returned"}
    /\ output' = Append(output,
                   [kind |-> "file",
                    test_summary |-> GeneratePerformanceReport(metrics_history),
                    detailed_metrics |->
                       [i \in 1..Len(metrics_history) |->
                           DetailedMetric(metrics_history[i])]])
    /\ ret' = <<None>>
    /\ mainpc' = "save_returned"
    /\ metrics_history' = <<>>
    /\ UNCHANGED <<now, call, sent, inflight, results, start_time, total_time,
                   budget, base, sent_base, report_lists>>
    /\ UNCHANGED orchVars
    /\ UNCHANGED stressVars
    /\ UNCHANGED batchVars

\* save_detailed_results(): the summary and one dict per stored sample are
\* dumped to the file; callers invoke it on its own or right after
\* print_report()
SaveDetailedResults ==
    /\ mainpc \in {"idle", "print_returned"}
    /\ output' = Append(output,
                   [kind |-> "file",
                    test_summary |-> GeneratePerformanceReport(metrics_history),
                    detailed_metrics |->
                       [i \in 1..Len(metrics_history) |->
                           DetailedMetric(metrics_history[i])]])
    /\ ret' = <<None>>
    /\ mainpc' = "save_returned"
    /\ UNCHANGED readFrame
    /\ UNCHANGED orchVars
    /\ UNCHANGED stressVars
    /\ UNCHANGED batchVars

\* ------------------------------------------------ the caller takes the result
CallerResume ==
    /\ mainpc \in {"single_returned", "conc_returned", "stress_returned",
                 "batch_returned", "report_returned", "print_returned",
                 "save_returned", "construct_returned"}
    /\ mainpc' = "idle"
    /\ results' = <<>>
    /\ wpc' = [w \in Workers |-> "none"]
    /\ call' = [t \in Threads |-> IdleFrame]
    /\ num_concurrent' = 0
    /\ threads' = <<>>
    /\ joined' = 0
    /\ duration_seconds' = 0
    /\ request_count' = 0
    /\ wake' = 0
    /\ start_time' = 0
    /\ total_time' = 0
    /\ base' = 0
    /\ sent_base' = sent
    /\ report_lists' = <<>>
    /\ output' = <<>>
    /\ ret' = <<>>
    /\ prompts' = <<>>
    /\ batch_i' = 0
    /\ UNCHANGED <<now, metrics_history, sent, inflight, budget>>

SingleNext ==
    \/ \E t \in Threads : Post(t)
    \/ \E t \in Threads : Respond(t)
    \/ \E t \in Threads : RequestException(t)
    \/ \E t \in Threads : Construct(t)
    \/ \E t \in Threads : ApiFailure(t)
    \/ \E t \in Threads : StoreAndReturn(t)

Next ==
    \/ Tick
    \/ SingleNext
    \/ StartSingle
    \/ SingleReturn
    \/ StartConcurrent
    \/ Spawn
    \/ SpawnDone
    \/ \E w \in Workers : WorkerCall(w)
    \/ \E w \in Workers : WorkerCollect(w)
    \/ Join
    \/ ConcurrentReturn
    \/ StartStress
    \/ StressIterate
    \/ StressCollect
    \/ StressWake
    \/ StressReturn
    \/ StartBatch
    \/ BatchIterate
    \/ BatchCollect
    \/ BatchWake
    \/ BatchReturn
    \/ GenerateReport
    \/ PrintReport
    \/ SaveDetailedResults
    \/ CallerResume

Spec == Init /\ [][Next]_vars

\* ------------------------------------------ the aggregator on given stores
\* Stores of up to MaxSamples samples, each built the way single_inference_test
\* builds it, from a response time (ticks), a completion_tokens count and a
\* pair of resource readings; sample i is taken at tick SampleGap * i.
AggTimes == {10, 30}
AggTokens == {10, 60}
AggLoads == {<<MemoryMb, CpuPercent>>, <<MemoryMb + 1, CpuPercent + 2>>}
AggKinds == AggTimes \X AggTokens \X AggLoads

AggSample(kind, i) ==
    LET frame == [IdleFrame EXCEPT
                     !.start_time = SampleGap * i - kind[1],
                     !.end_time = SampleGap * i,
                     !.req = i,
                     !.status = HttpOk,
                     !.usage = [prompt_tokens |-> PromptTokens,
                                completion_tokens |-> kind[2],
                                total_tokens |-> PromptTokens + kind[2]]]
    IN [PerformanceMetrics(frame, SampleGap * i) EXCEPT
           !.memory_usage = kind[3][1], !.cpu_usage = kind[3][2]]

AggHistories ==
    UNION {{[i \in 1..n |-> AggSample(kinds[i], i)] : kinds \in [1..n -> AggKinds]} :
              n \in 0..MaxSamples}

AggInit ==
    /\ now = SampleGap * MaxSamples
    /\ metrics_history \in AggHistories
    /\ call = [t \in Threads |-> IdleFrame]
    /\ sent = Len(metrics_history)
    /\ inflight = {}
    /\ mainpc = "idle"
    /\ wpc = [w \in Workers |-> "none"]
    /\ results = <<>>
    /\ num_concurrent = 0
    /\ threads = <<>>
    /\ joined = 0
    /\ duration_seconds = 0
    /\ start_time = 0
    /\ request_count = 0
    /\ wake = 0
    /\ total_time = 0
    /\ ret = <<>>
    /\ budget = 0
    /\ base = 0
    /\ sent_base = sent
    /\ report_lists = <<>>
    /\ output = <<>>
    /\ prompts = <<>>
    /\ batch_i = 0

AggNext ==
    \/ GenerateReport
    \/ PrintReport
    \/ SaveDetailedResults
    \/ CallerResume

AggSpec == AggInit /\ [][AggNext]_vars

\* ------------------------------------- PerformanceMetrics built by a caller
\* rates a caller may pass as tokens_per_second
DirectRates == {<<0, 1>>, <<5, 1>>, <<10, 1>>, <<10, 3>>}

\* a caller constructs PerformanceMetrics(...) itself, with arguments of its
\* own choice
ConstructDirect ==
    /\ mainpc = "idle"
    /\ \E response_time \in 0..MaxTime, rate \in DirectRates,
          completion_tokens \in 0..MaxTokens, timestamp \in 0..MaxTime :
          ret' = <<[id |-> 0] @@
                   PerformanceMetricsInit(response_time, rate,
                                          PromptTokens + completion_tokens,
                                          PromptTokens, completion_tokens,
                                          MemoryMb, CpuPercent, timestamp)>>
    /\ mainpc' = "construct_returned"
    /\ UNCHANGED <<now, metrics_history, call, sent, inflight, results,
                   start_time, total_time, budget, base, sent_base, report_lists, output>>
    /\ UNCHANGED orchVars
    /\ UNCHANGED stressVars
    /\ UNCHANGED batchVars

DataNext ==
    \/ ConstructDirect
    \/ CallerResume

DataSpec == Init /\ [][DataNext]_vars

\* ------------------------------------ KeyboardInterrupt during a run (main)
\* generate_performance_report when other threads may append while it runs:
\* the four lists of lines 273-276 are read first (lists), the count, the time
\* range and the token sums of lines 280-304 are read from the store as it is
\* when the dict is built (h)
BuildReport(lists, h) ==
    LET late == GeneratePerformanceReport(h)
    IN [GeneratePerformanceReport(lists) EXCEPT !.overview = late.overview,
                                                !.tokens = late.tokens]

\* the variables the handler of main() leaves alone
handlerFrame == <<now, metrics_history, call, sent, inflight, results, start_time,
                  total_time, ret, budget, base, sent_base>>

\* Ctrl-C while stress_test or concurrent_inference_test runs: KeyboardInterrupt
\* is raised in the main thread and unwinds it to the handler of main(); the
\* worker threads are not daemons and run on
Interrupt ==
    /\ mainpc \in {"conc_spawn", "conc_join", "stress_top", "stress_call",
                  "stress_sleep"}
    /\ mainpc' = "int_caught"
    /\ call' = [call EXCEPT ![MainThread] = IdleFrame]
    /\ inflight' = inflight \ {call[MainThread].req}
    /\ UNCHANGED <<now, metrics_history, sent, results, start_time, total_time,
                   ret, budget, base, sent_base, report_lists, output>>
    /\ UNCHANGED orchVars
    /\ UNCHANGED stressVars
    /\ UNCHANGED batchVars

\* except KeyboardInterrupt: if tester.metrics_history: print_report(), whose
\* generate_performance_report builds its lists; on an empty store nothing
HandlerLists ==
    /\ mainpc = "int_caught"
    /\ report_lists' = metrics_history
    /\ mainpc' = IF Len(metrics_history) > 0 THEN "int_build" ELSE "int_done"
    /\ UNCHANGED output
    /\ UNCHANGED handlerFrame
    /\ UNCHANGED orchVars
    /\ UNCHANGED stressVars
    /\ UNCHANGED batchVars

\* the report dict is built and print_report prints it
HandlerPrint ==
    /\ mainpc = "int_build"
    /\ output' = <<[kind |-> "banner"],
                   [kind |-> "sections",
                    report |-> BuildReport(report_lists, metrics_history)]>>
    /\ mainpc' = "int_printed"
    /\ UNCHANGED report_lists
    /\ UNCHANGED handlerFrame
    /\ UNCHANGED orchVars
    /\ UNCHANGED stressVars
    /\ UNCHANGED batchVars

\* main() with --test-type concurrent or stress: one run, which may be
\* interrupted at any point; the run begins at tick 0 and the process is
\* followed until the handler has printed its report or found nothing to report
IntLive == mainpc \notin {"int_printed", "int_done"}

IntNext ==
    \/ IntLive /\ mainpc # "idle" /\ Tick
    \/ IntLive /\ SingleNext
    \/ StartConcurrent
    \/ Spawn
    \/ SpawnDone
    \/ \E w \in Workers : IntLive /\ WorkerCall(w)
    \/ \E w \in Workers : IntLive /\ WorkerCollect(w)
    \/ Join
    \/ ConcurrentReturn
    \/ StartStress
    \/ StressIterate
    \/ StressCollect
    \/ StressWake
    \/ StressReturn
    \/ Interrupt
    \/ HandlerLists
    \/ HandlerPrint

IntSpec == Init /\ [][IntNext]_vars

\* ------------------------------------- stress_test under a fair scheduler
\* the steps of stress_test's own loop
StressStep ==
    \/ StressIterate
    \/ StressCollect
    \/ StressWake
    \/ StressReturn

\* a tester used for stress runs only
StressNext ==
    \/ Tick
    \/ SingleNext
    \/ StartStress
    \/ StressIterate
    \/ StressCollect
    \/ StressWake
    \/ StressReturn
    \/ CallerResume

\* the clock advances, every request returns (a response, or the
\* RequestException of a connection error or of the 60 s timeout), a blocked
\* get_system_metrics or sleep ends, and the main thread is scheduled
StressFairness ==
    /\ WF_vars(Tick)
    /\ WF_vars(SingleNext)
    /\ WF_vars(StressStep)

StressSpec == Init /\ [][StressNext]_vars /\ StressFairness

\* ------------------------------------------------------------ properties
\* the call of thread t ends in this step
Returns(t) == call[t].pc # "returned" /\ call'[t].pc = "returned"

\* the call of thread t fails in this step: session.post raises, or the
\* response it holds has a status other than 200
Fails(t) ==
    /\ Returns(t)
    /\ \/ call[t].pc = "inflight"
       \/ call[t].pc = "sysm_after" /\ call[t].status # HttpOk

\* C1: a call of single_inference_test that fails (transport error, timeout
\* or non-200 status) returns None through its normal return path and leaves
\* metrics_history as it was.
C1_FailedCallReturnsNone ==
    [][\A t \in Threads :
          /\ Fails(t) => call'[t].ret = None /\ metrics_history' = metrics_history
          /\ (call[t].pc = "inflight" /\ call'[t] # call[t])
                => /\ call'[t].pc \in {"sysm_after", "returned"}
                   /\ metrics_history' = metrics_history
          /\ (call[t].pc = "sysm_after" /\ call[t].status # HttpOk
                /\ call'[t] # call[t]) => Returns(t)]_vars

C1_Witness ==
    /\ mainpc = "single_returned"
    /\ ret = <<None>>
    /\ sent = 1
    /\ metrics_history = <<>>

Range(lst) == {lst[i] : i \in 1..Len(lst)}
Added == SubSeq(metrics_history, base + 1, Len(metrics_history))
Distinct(lst) == \A i, j \in 1..Len(lst) : lst[i] = lst[j] => i = j

\* the workers of the running fan-out, and those whose call gave a sample
Fanout == 1..num_concurrent
Succeeded == {w \in Fanout : call[w].pc = "returned" /\ call[w].ret # None}

\* C3: when all N workers of concurrent_inference_test complete successful
\* calls, metrics_history ends with exactly N new samples, the workers' own,
\* each once and unaltered, whatever the interleaving.
C3_ConcurrentAppendsAllStored ==
    (mainpc = "conc_returned" /\ Succeeded = Fanout)
        => /\ Len(metrics_history) = base + num_concurrent
           /\ Range(Added) = {call[w].ret : w \in Fanout}
           /\ Distinct(metrics_history)
           /\ \A i \in 1..Len(metrics_history) : metrics_history[i] # None

\* two workers succeeded and the one started later stored its sample first
C3_Witness ==
    /\ mainpc = "conc_returned"
    /\ num_concurrent >= 2
    /\ Succeeded = Fanout
    /\ Len(Added) = num_concurrent
    /\ Added[1] = call[2].ret
    /\ Added[2] = call[1].ret

\* C4: concurrent_inference_test starts all N workers before it waits on any
\* of them and returns only when every one of them has finished; at the
\* return no request of the fan-out is in flight.
C4_StartAllThenJoinAll ==
    /\ mainpc \in {"conc_join", "conc_returned"}
          => /\ Len(threads) = num_concurrent
             /\ \A w \in Fanout : wpc[w] # "none"
             /\ \A i \in 1..joined : wpc[threads[i]] = "finished"
    /\ mainpc = "conc_spawn" => joined = 0
    /\ mainpc = "conc_returned"
          => /\ joined = num_concurrent
             /\ \A w \in Fanout : wpc[w] = "finished" /\ call[w].pc = "returned"
             /\ inflight = {}

C4_Witness ==
    /\ mainpc = "conc_returned"
    /\ num_concurrent >= 2
    /\ \A w \in Fanout : wpc[w] = "finished"
    /\ total_time >= 2 * CpuInterval

\* C5: concurrent_inference_test with num_concurrent = N returns r samples,
\* 0 <= r <= N: exactly the samples of the invocations that succeeded, one
\* for each.
C5_ReturnsSucceededSubset ==
    mainpc = "conc_returned"
        => /\ Len(ret) = 1
           /\ Len(ret[1]) >= 0
           /\ Len(ret[1]) <= num_concurrent
           /\ Len(ret[1]) = Cardinality(Succeeded)
           /\ Range(ret[1]) = {call[w].ret : w \in Succeeded}

C5_Witness ==
    /\ mainpc = "conc_returned"
    /\ num_concurrent >= 2
    /\ Len(ret[1]) = 1
    /\ Cardinality(Succeeded) = 1

\* C6: in concurrent_inference_test the failure of a worker's invocation
\* changes nothing for the other workers or the joining thread; every worker
\* runs to completion, and a sample it obtains is stored and returned.
C6_NoFailFast ==
    /\ [][\A w \in Workers :
             Fails(w) => /\ \A v \in Threads \ {w} : call'[v] = call[v]
                         /\ wpc' = wpc
                         /\ mainpc' = mainpc
                         /\ joined' = joined
                         /\ results' = results]_vars
    /\ [](mainpc = "conc_returned"
             => \A w \in Fanout :
                   /\ wpc[w] = "finished"
                   /\ call[w].pc = "returned"
                   /\ call[w].ret # None
                         => /\ call[w].ret \in Range(Added)
                            /\ call[w].ret \in Range(ret[1]))

\* the first worker failed, the second one still delivered its sample
C6_Witness ==
    /\ mainpc = "conc_returned"
    /\ num_concurrent >= 2
    /\ call[1].ret = None
    /\ call[2].ret # None
    /\ ret = <<(<<call[2].ret>>)>>
    /\ Added = <<call[2].ret>>

\* C7: when stress_test with duration D returns, the time elapsed since its
\* start is at least D and it collected no more samples than it attempted
\* requests.
C7_StressElapsedAndCount ==
    mainpc = "stress_returned"
        => /\ total_time >= duration_seconds
           /\ now - start_time >= duration_seconds
           /\ Len(ret[1]) <= request_count

C7_Witness ==
    /\ mainpc = "stress_returned"
    /\ duration_seconds >= 1
    /\ request_count >= 2
    /\ Len(ret[1]) < request_count

\* C8 as stated: stress_test returns the collected samples plus the count of
\* requests attempted.
C8_ReturnsSamplesAndAttemptCount ==
    mainpc = "stress_returned"
        => /\ Len(ret) = 2
           /\ ret[1] = results
           /\ ret[2] = request_count

\* C8, amended: stress_test returns the list of successfully collected
\* samples and nothing else; the count of attempted requests is not part of
\* the returned value.
C8_ReturnsSamplesOnly ==
    mainpc = "stress_returned"
        => /\ Len(ret) = 1
           /\ ret[1] = results
           /\ ret[1] = Added

\* a return after a failed and a successful request: one sample, two attempts
C8_Witness ==
    /\ mainpc = "stress_returned"
    /\ request_count = 2
    /\ Len(ret[1]) = 1
    /\ ret[1] = Added

StressRunning == mainpc \in {"stress_top", "stress_call", "stress_sleep"}

\* C9: during a stress_test run at most one request is in flight, and a
\* request is issued only when every earlier one has returned its result.
C9_StressSerial ==
    /\ [](StressRunning
             => /\ Cardinality(inflight) <= 1
                /\ \A w \in Workers : call[w].pc = "idle"
                /\ inflight # {} => /\ mainpc = "stress_call"
                                    /\ call[MainThread].pc = "inflight"
                                    /\ inflight = {call[MainThread].req})
    /\ [][(StressRunning /\ sent' # sent)
             => /\ inflight = {}
                /\ sent' = sent + 1
                /\ inflight' = {sent'}
                /\ Len(results) + 1 <= request_count]_vars

\* the second request of a run is in flight
C9_Witness ==
    /\ mainpc = "stress_call"
    /\ request_count = 2
    /\ Cardinality(inflight) = 1

\* C10: the deadline of stress_test is checked at the loop top only; a request
\* that was issued is waited for and followed by the pacing delay whatever
\* the clock says, no request follows a check that found the deadline
\* reached, and the run once stopped stays stopped.
C10_DeadlineOnlyAtLoopTop ==
    [][/\ (mainpc # "stress_returned" /\ mainpc' = "stress_returned")
             => mainpc = "stress_top" /\ ~DeadlineOpen
       /\ (mainpc = "stress_top" /\ mainpc' # mainpc)
             => \/ DeadlineOpen /\ mainpc' = "stress_call"
                   /\ request_count' = request_count + 1
                \/ ~DeadlineOpen /\ mainpc' = "stress_returned"
                   /\ request_count' = request_count /\ sent' = sent
       /\ (mainpc = "stress_call" /\ mainpc' # mainpc)
             => /\ call[MainThread].pc = "returned"
                /\ mainpc' = "stress_sleep"
                /\ wake' = now + StressSleep
       /\ (mainpc = "stress_call" /\ call'[MainThread] # call[MainThread])
             => \/ mainpc' = mainpc /\ call'[MainThread].pc # "idle"
                \/ call[MainThread].pc = "returned"
       /\ (mainpc = "stress_sleep" /\ mainpc' # mainpc)
             => mainpc' = "stress_top" /\ now >= wake
       /\ mainpc = "stress_returned"
             => /\ mainpc' \in {"stress_returned", "idle"}
                /\ sent' = sent
                /\ inflight' = inflight
                /\ metrics_history' = metrics_history]_vars

\* the last request was issued before the deadline and ended after it
C10_Witness ==
    /\ mainpc = "stress_returned"
    /\ request_count >= 1
    /\ total_time > duration_seconds
    /\ Len(ret[1]) = request_count
    /\ ret[1][request_count].timestamp - start_time > duration_seconds

\* C11: every sample in metrics_history has tokens_per_second equal to
\* completion_tokens / response_time when response_time > 0, and 0 when
\* response_time is 0 (the rate n/d is compared by cross-multiplication;
\* response_time is in ticks).
C11_TokensPerSecondDerived ==
    \A i \in 1..Len(metrics_history) :
       LET m == metrics_history[i]
           n == m.tokens_per_second[1]
           d == m.tokens_per_second[2]
       IN /\ d > 0
          /\ m.response_time > 0
                => n * m.response_time = m.completion_tokens * TicksPerSecond * d
          /\ m.response_time = 0 => n = 0

\* a stored sample whose rate is not a whole number: 1 token in 0.3 s
C11_Witness ==
    \E i \in 1..Len(metrics_history) :
       /\ metrics_history[i].completion_tokens = 1
       /\ metrics_history[i].response_time = 3
       /\ metrics_history[i].tokens_per_second = <<10, 3>>

\* the relation between the three fields of a sample that C11 states
Derived(m) ==
    LET n == m.tokens_per_second[1]
        d == m.tokens_per_second[2]
    IN /\ m.response_time > 0
             => n * m.response_time = m.completion_tokens * TicksPerSecond * d
       /\ m.response_time <= 0 => n = 0

\* C12: the derived-field invariant is checked at construction: no
\* PerformanceMetrics comes into existence whose tokens_per_second differs
\* from the value derived from completion_tokens and response_time.
C12_ConstructionChecksDerivedField ==
    mainpc = "construct_returned" => Derived(ret[1])

\* C13: generate_performance_report on an empty metrics_history returns the
\* explicit error outcome (a report holding the error and no statistics), and
\* print_report on an empty store prints that error and no report section.
C13_EmptyStoreSignalled ==
    /\ (mainpc = "report_returned" /\ metrics_history = <<>>)
          => /\ Len(ret) = 1
             /\ DOMAIN ret[1] = {"error"}
    /\ (mainpc = "print_returned" /\ metrics_history = <<>>)
          => /\ ret = <<None>>
             /\ Len(output) = 1
             /\ output[1].kind = "error"
             /\ \A k \in 1..Len(output) : output[k].kind # "sections"

\* print_report has returned on a store that a failed request left empty
C13_Witness ==
    /\ mainpc = "print_returned"
    /\ metrics_history = <<>>
    /\ sent >= 1
    /\ output = <<[kind |-> "error", text |-> ErrorReport.error]>>

\* sums over the stored samples, taken field by field
RECURSIVE TotalTicks(_)
TotalTicks(h) == IF Len(h) = 0 THEN 0 ELSE Head(h).response_time + TotalTicks(Tail(h))
RECURSIVE TotalCompletion(_)
TotalCompletion(h) ==
    IF Len(h) = 0 THEN 0 ELSE Head(h).completion_tokens + TotalCompletion(Tail(h))
RECURSIVE TotalSquaredTicks(_)
TotalSquaredTicks(h) ==
    IF Len(h) = 0 THEN 0
    ELSE Head(h).response_time * Head(h).response_time + TotalSquaredTicks(Tail(h))
\* the rates n_i / d_i of the samples over the common denominator P
RECURSIVE RateDenominator(_)
RateDenominator(h) ==
    IF Len(h) = 0 THEN 1 ELSE Head(h).tokens_per_second[2] * RateDenominator(Tail(h))
RECURSIVE RateNumerator(_, _)
RateNumerator(h, P) ==
    IF Len(h) = 0 THEN 0
    ELSE Head(h).tokens_per_second[1] * (P \div Head(h).tokens_per_second[2])
            + RateNumerator(Tail(h), P)

\* d is a / b rounded to the nearest integer (b > 0)
Nearest(d, a, b) == 2 * (d * b - a) <= b /\ 2 * (a - d * b) <= b

\* the report in hand is a statistics report over a non-empty store
ReportInHand ==
    /\ mainpc = "report_returned"
    /\ Len(metrics_history) > 0
    /\ "error" \notin DOMAIN ret[1]

\* the two samples of the example: 1.0 s at 10 tokens/s, 3.0 s at 20 tokens/s
ExampleStore ==
    /\ Len(metrics_history) = 2
    /\ metrics_history[1].response_time = 10
    /\ metrics_history[1].tokens_per_second = <<10, 1>>
    /\ metrics_history[2].response_time = 30
    /\ metrics_history[2].tokens_per_second = <<20, 1>>

\* C14 as stated: the reported means are exactly sum/count (response times in
\* thousandths of a second against ticks, rates in hundredths).
C14_MeansExact ==
    ReportInHand =>
       LET h == metrics_history
           n == Len(h)
           r == ret[1]
           P == RateDenominator(h)
       IN /\ r.overview.total_requests = n
          /\ r.response_time.mean.digits * TicksPerSecond * n = 1000 * TotalTicks(h)
          /\ r.throughput.mean.digits * n * P = 100 * RateNumerator(h, P)
          /\ r.tokens.total_completion = TotalCompletion(h)

\* C14 (amended): the report gives the exact request count and completion
\* token total; the mean response time is sum/count rounded to three
\* decimals, the minimum and maximum are the smallest and largest stored
\* response time to three decimals, the mean rate is sum/count rounded to two
\* decimals; the example store gives 2.000 s, 1.000 s, 3.000 s and 15.00.
C14_MeansRounded ==
    ReportInHand =>
       LET h == metrics_history
           n == Len(h)
           r == ret[1]
           P == RateDenominator(h)
       IN /\ r.overview.total_requests = n
          /\ r.response_time.mean.decimals = 3
          /\ Nearest(r.response_time.mean.digits, 1000 * TotalTicks(h),
                     TicksPerSecond * n)
          /\ \A i \in 1..n :
                /\ r.response_time.min.digits * TicksPerSecond
                      <= 1000 * h[i].response_time
                /\ r.response_time.max.digits * TicksPerSecond
                      >= 1000 * h[i].response_time
          /\ \E i \in 1..n :
                r.response_time.min.digits * TicksPerSecond = 1000 * h[i].response_time
          /\ \E i \in 1..n :
                r.response_time.max.digits * TicksPerSecond = 1000 * h[i].response_time
          /\ r.throughput.mean.decimals = 2
          /\ Nearest(r.throughput.mean.digits, 100 * RateNumerator(h, P), n * P)
          /\ r.tokens.total_completion = TotalCompletion(h)
          /\ ExampleStore
                => /\ r.response_time.mean.digits = 2000
                   /\ r.response_time.min.digits = 1000
                   /\ r.response_time.max.digits = 3000
                   /\ r.throughput.mean.digits = 1500

\* the report over the example store
C14_Witness ==
    /\ ReportInHand
    /\ ExampleStore
    /\ ret[1].response_time.mean = [digits |-> 2000, decimals |-> 3, unit |-> "s"]
    /\ ret[1].throughput.mean.digits = 1500

\* C15: on a store of exactly one sample the report is a statistics report
\* whose standard deviation is 0; from two samples on it is the sample
\* standard deviation sqrt((n*sum(t^2) - sum(t)^2) / (n*(n-1))), in
\* thousandths of a second rounded to the nearest.
C15_StdevFromTwoSamples ==
    (mainpc = "report_returned" /\ Len(metrics_history) > 0) =>
       LET h == metrics_history
           n == Len(h)
           sd == ret[1].response_time.stdev
           A == n * TotalSquaredTicks(h) - TotalTicks(h) * TotalTicks(h)
           B == n * (n - 1)
       IN /\ "error" \notin DOMAIN ret[1]
          /\ n = 1 => sd = [digits |-> 0, decimals |-> 3, unit |-> "s"]
          /\ n >= 2 =>
                /\ "digits" \in DOMAIN sd
                /\ IF sd.digits = 0 THEN 40000 * A < B
                   ELSE /\ (2 * sd.digits - 1) * (2 * sd.digits - 1) * B <= 40000 * A
                        /\ 40000 * A < (2 * sd.digits + 1) * (2 * sd.digits + 1) * B

\* the report over a single sample
C15_Witness ==
    /\ mainpc = "report_returned"
    /\ Len(metrics_history) = 1
    /\ "error" \notin DOMAIN ret[1]
    /\ ret[1].response_time.stdev.digits = 0

FiveStatistics == {"mean", "median", "min", "max", "stdev"}

\* C16 as stated: response_time and tokens_per_second both carry the five
\* statistics; memory and cpu carry mean and maximum; completion tokens carry
\* sum and mean; the time span runs from the first to the last timestamp.
C16_FiveStatisticsForBoth ==
    ReportInHand =>
       LET r == ret[1] IN
       /\ FiveStatistics \subseteq DOMAIN r.response_time
       /\ FiveStatistics \subseteq DOMAIN r.throughput
       /\ {"mean_memory", "max_memory", "mean_cpu", "max_cpu"} \subseteq DOMAIN r.system
       /\ {"total_completion", "mean_completion"} \subseteq DOMAIN r.tokens
       /\ r.overview.time_range = <<metrics_history[1].timestamp,
                                    metrics_history[Len(metrics_history)].timestamp>>

\* C16 (amended): response_time carries the five statistics; tokens_per_second
\* carries the mean, maximum and minimum only; memory and cpu carry mean and
\* maximum; completion tokens carry sum and mean; the time span names the
\* first and the last stored timestamp.  The median leaves at most half of the
\* samples on either side, the maxima are the largest stored readings and the
\* means are sum/count to one decimal.
C16_SummaryContents ==
    ReportInHand =>
       LET h == metrics_history
           n == Len(h)
           r == ret[1]
           med == r.response_time.median.digits
       IN /\ DOMAIN r.response_time = FiveStatistics
          /\ DOMAIN r.throughput = {"mean", "max", "min"}
          /\ DOMAIN r.system = {"mean_memory", "max_memory", "mean_cpu", "max_cpu"}
          /\ {"total_completion", "mean_completion"} \subseteq DOMAIN r.tokens
          /\ r.overview.time_range = <<h[1].timestamp, h[n].timestamp>>
          /\ 2 * Cardinality({i \in 1..n : 1000 * h[i].response_time
                                              < med * TicksPerSecond}) <= n
          /\ 2 * Cardinality({i \in 1..n : 1000 * h[i].response_time
                                              > med * TicksPerSecond}) <= n
          /\ \A i \in 1..n : /\ r.system.max_memory.digits >= 10 * h[i].memory_usage
                             /\ r.system.max_cpu.digits >= 10 * h[i].cpu_usage
          /\ \E i \in 1..n : r.system.max_memory.digits = 10 * h[i].memory_usage
          /\ \E i \in 1..n : r.system.max_cpu.digits = 10 * h[i].cpu_usage
          /\ r.tokens.total_completion = TotalCompletion(h)
          /\ Nearest(r.tokens.mean_completion.digits, 10 * TotalCompletion(h), n)

\* a report over three samples of differing load, the largest not the first
C16_Witness ==
    /\ ReportInHand
    /\ Len(metrics_history) = 3
    /\ metrics_history[1].memory_usage < metrics_history[3].memory_usage
    /\ ret[1].overview.time_range[1] < ret[1].overview.time_range[2]
    /\ "median" \in DOMAIN ret[1].response_time
    /\ "median" \notin DOMAIN ret[1].throughput

\* the store is read in this step by a report, print or save operation
ReportStep ==
    /\ mainpc \in {"idle", "print_returned"}
    /\ mainpc' \in {"report_returned", "print_returned", "save_returned"}
    /\ mainpc' # mainpc

\* what a report says of the store it was computed from
ReportOf(r, h) ==
    IF Len(h) = 0 THEN DOMAIN r = {"error"}
    ELSE /\ "error" \notin DOMAIN r
         /\ r.overview.total_requests = Len(h)
         /\ r.overview.time_range = <<h[1].timestamp, h[Len(h)].timestamp>>
         /\ r.tokens.total_completion = TotalCompletion(h)

\* C17: a report, print or save operation leaves metrics_history as it was,
\* and every report they produce is one of the store as it is at that moment:
\* its request count is the current length, its time span ends at the last
\* stored sample; print_report followed by save_detailed_results with no
\* append in between carry equal reports.
C17_ReportIsStatelessRead ==
    [][/\ ReportStep => metrics_history' = metrics_history
       /\ (ReportStep /\ mainpc' = "report_returned")
             => ReportOf(ret'[1], metrics_history')
       /\ (ReportStep /\ mainpc' = "print_returned" /\ Len(output') = 2)
             => ReportOf(output'[2].report, metrics_history')
       /\ (ReportStep /\ mainpc' = "save_returned")
             => /\ ReportOf(output'[Len(output')].test_summary, metrics_history')
                /\ Len(output'[Len(output')].detailed_metrics) = Len(metrics_history')
                /\ Len(output') = 3
                      => output'[3].test_summary = output'[2].report]_vars

\* print then save on a store that two runs have filled
C17_Witness ==
    /\ mainpc = "save_returned"
    /\ Len(metrics_history) = 2
    /\ Len(output) = 3
    /\ output[2].report.overview.total_requests = 2
    /\ output[3].test_summary.overview.total_requests = 2

\* lst is an initial part of longer
IsPrefix(lst, longer) ==
    /\ Len(lst) <= Len(longer)
    /\ SubSeq(longer, 1, Len(lst)) = lst

\* C18: in every step of every run and of every report or save operation the
\* earlier metrics_history is a prefix of the later one, and it grows by at
\* most one sample.
C18_StoreGrowsByAppend ==
    [][/\ IsPrefix(metrics_history, metrics_history')
       /\ Len(metrics_history') <= Len(metrics_history) + 1]_vars

\* a batch run has added its sample behind the one an earlier run stored
C18_Witness ==
    /\ mainpc = "batch_returned"
    /\ base >= 1
    /\ Len(metrics_history) > base
    /\ Len(ret[1]) = Len(metrics_history) - base

\* C19: during and after a stress_test run the samples it added to
\* metrics_history stand in the order their requests were issued (request ids
\* are given out in issue order), the list under construction is a prefix of
\* them, and the returned list is exactly them.
C19_StressIssueOrder ==
    (StressRunning \/ mainpc = "stress_returned") =>
       /\ \A i, j \in 1..Len(Added) :
             i < j => /\ Added[i].id < Added[j].id
                      /\ Added[i].timestamp <= Added[j].timestamp
                                                  - Added[j].response_time
       /\ IsPrefix(results, Added)
       /\ mainpc = "stress_returned" => ret[1] = Added

\* a stress run that returned two samples
C19_Witness ==
    /\ mainpc = "stress_returned"
    /\ Len(ret[1]) = 2
    /\ ret[1][1].id < ret[1][2].id
    /\ Added = ret[1]

\* thread t executes metrics_history.append in this step
Appends(t) == call[t].pc = "append" /\ call'[t].pc = "returned"

\* thread t holds a 200 response whose sample is not in the store yet
Pending(t) == call[t].pc \in {"sysm_after", "append"} /\ call[t].status = HttpOk

\* C20 as stated: insertion order equals the order in which the responses were
\* received: when a thread appends, no other thread holds an earlier received
\* response that is still to be stored.
C20_StoredInReceiptOrder ==
    [][\A a \in Threads :
          Appends(a) =>
             \A b \in Threads \ {a} :
                Pending(b) => call[a].end_time <= call[b].end_time]_vars

\* C20 (amended): insertion order is the order in which the threads execute
\* the append: the appending thread's sample becomes the last of the store,
\* behind every sample appended before; a sample is appended no earlier than
\* one sampling interval after its response was received.
C20_StoredInAppendOrder ==
    [][\A a \in Threads :
          Appends(a) =>
             /\ metrics_history' = Append(metrics_history, call[a].metrics)
             /\ call[a].metrics.id = call[a].req
             /\ call[a].end_time + CpuInterval <= call[a].metrics.timestamp
             /\ call[a].metrics.timestamp <= now]_vars

\* a concurrent run in which the last stored sample belongs to a response
\* received later than one that is still to be stored (no call of the run
\* begins before the run's start_time)
C20_Witness ==
    /\ mainpc \in {"conc_spawn", "conc_join"}
    /\ Len(Added) >= 1
    /\ \E b \in Workers :
          /\ Pending(b)
          /\ \E a \in Workers \ {b} :
                /\ call[a].pc = "returned"
                /\ call[a].ret # None
                /\ call[a].ret = metrics_history[Len(metrics_history)]
                /\ call[b].end_time < start_time + call[a].ret.response_time

\* the invocations of single_inference_test the running method has made
RunInvocations ==
    CASE mainpc \in {"single_call", "single_returned"} -> 1
      [] mainpc \in {"conc_spawn", "conc_join", "conc_returned"} ->
            Cardinality({w \in Workers : wpc[w] \in {"calling", "finished"}})
      [] mainpc \in {"stress_top", "stress_call", "stress_sleep", "stress_returned"} ->
            request_count
      [] mainpc \in {"batch_top", "batch_call", "batch_sleep", "batch_returned"} ->
            batch_i
      [] OTHER -> 0

\* the requests the running method has issued
RunRequests == sent - sent_base

\* thread t is inside single_inference_test and has posted its request
Posted(t) == call[t].pc \in {"inflight", "sysm_after", "append"}

\* C21: every invocation of single_inference_test issues exactly one request
\* and never a second one: a request is issued only by a call that has not
\* posted yet, a call that has posted keeps its request until it returns, and
\* the requests of a run are as many as its invocations that have reached the
\* post (1 for a single run, N for a fan-out of N, request_count for a stress
\* run, len(prompts) for a batch).
C21_OneRequestPerInvocation ==
    /\ [](/\ RunRequests + Cardinality({t \in Threads : call[t].pc = "sysm_before"})
               = RunInvocations
          /\ mainpc = "single_returned" => RunRequests = 1
          /\ mainpc = "conc_returned" => RunRequests = num_concurrent
          /\ mainpc = "stress_returned" => RunRequests = request_count
          /\ mainpc = "batch_returned" => RunRequests = Len(prompts))
    /\ [][/\ sent' # sent
                => /\ sent' = sent + 1
                   /\ \E t \in Threads :
                         /\ call[t].pc = "sysm_before"
                         /\ call'[t].pc = "inflight"
                         /\ call'[t].req = sent'
                         /\ \A u \in Threads \ {t} : call'[u] = call[u]
          /\ \A t \in Threads :
                Posted(t) => /\ call'[t].pc \in {"inflight", "sysm_after", "append",
                                                "returned"}
                             /\ Posted(t)' => call'[t].req = call[t].req]_vars

\* a fan-out of two whose requests both failed: two requests, no third
C21_Witness ==
    /\ mainpc = "conc_returned"
    /\ num_concurrent = 2
    /\ ret = <<(<<>>)>>
    /\ metrics_history = <<>>
    /\ sent = sent_base + 2

\* a concurrent_inference_test run is under way
ConcRunning == mainpc \in {"conc_spawn", "conc_join"}

\* worker thread w takes this step (Spawn, which starts it, is the main thread's)
WorkerStep(w) ==
    \/ call'[w] # call[w]
    \/ wpc'[w] # wpc[w] /\ wpc[w] # "none"

\* the locals of concurrent_inference_test and of its caller other than the
\* list `results`
OrchestratorLocals ==
    <<mainpc, num_concurrent, threads, joined, start_time, total_time, ret>>

C23_InterruptedReportOverCollected ==
    mainpc = "int_printed" =>
       LET r == output[2].report
           k == r.overview.total_requests
           h == SubSeq(metrics_history, 1, k)
       IN /\ k >= 1
          /\ k <= Len(metrics_history)
          /\ Nearest(r.response_time.mean.digits, 1000 * TotalTicks(h),
                     TicksPerSecond * k)
          /\ \E i \in 1..k :
                r.response_time.max.digits * TicksPerSecond = 1000 * h[i].response_time
          /\ \A i \in 1..k :
                r.response_time.max.digits * TicksPerSecond >= 1000 * h[i].response_time
          /\ r.tokens.total_completion = TotalCompletion(h)

\* a batch_inference_test run is under way or has just returned
BatchRunning == mainpc \in {"batch_top", "batch_call", "batch_sleep", "batch_returned"}

\* the prompt (its position in the list) that a sample of this batch answers
PromptOf(m) == m.id - sent_base

\* C24: batch_inference_test issues one request per prompt, serially and in
\* list order: the request of the i-th iteration is the i-th request of the
\* run and at most one request is outstanding; a failed request does not stop
\* the batch: the index moves only by one, at the loop top, and the method
\* returns only when every prompt has been attempted; the returned list has at
\* most len(prompts) samples and holds the successful samples, the ones the
\* run stored, in prompt order.
C24_BatchSerialInOrder ==
    /\ [](BatchRunning
             => /\ batch_i <= Len(prompts)
                /\ Cardinality(inflight) <= 1
                /\ \A w \in Workers : call[w].pc \in {"idle", "returned"}
                /\ (mainpc = "batch_call" /\ Posted(MainThread))
                      => call[MainThread].req = sent_base + batch_i
                /\ (mainpc = "batch_call" /\ call[MainThread].pc = "sysm_before")
                      => RunRequests = batch_i - 1
                /\ (mainpc # "batch_call" \/ call[MainThread].pc # "sysm_before")
                      => RunRequests = batch_i
                /\ Len(results) <= batch_i
                /\ \A k \in 1..Len(results) : PromptOf(results[k]) \in 1..batch_i
                /\ \A j, k \in 1..Len(results) :
                      j < k => PromptOf(results[j]) < PromptOf(results[k]))
    /\ [](mainpc = "batch_returned"
             => /\ batch_i = Len(prompts)
                /\ RunRequests = Len(prompts)
                /\ Len(ret[1]) <= Len(prompts)
                /\ ret[1] = Added
                /\ \A j, k \in 1..Len(ret[1]) :
                      j < k => PromptOf(ret[1][j]) < PromptOf(ret[1][k]))
    /\ [][BatchRunning
             => /\ prompts' = prompts \/ mainpc = "batch_returned"
                /\ batch_i' # batch_i
                      => \/ mainpc = "batch_top" /\ batch_i' = batch_i + 1
                         \/ mainpc = "batch_returned"]_vars

\* a batch of two prompts whose first request failed and whose second succeeded
C24_Witness ==
    /\ mainpc = "batch_returned"
    /\ Len(prompts) = 2
    /\ RunRequests = 2
    /\ Len(ret[1]) = 1
    /\ PromptOf(ret[1][1]) = 2

\* a batch, concurrent or stress run has just returned its list
RunReturned == mainpc \in {"batch_returned", "conc_returned", "stress_returned"}

\* C25: when a batch, concurrent or stress run returns, the returned list
\* contains exactly the samples the run appended to metrics_history: the
\* growth of the store during the run equals the length of the returned list,
\* every returned sample is in the added part of the store and every added
\* sample is returned, each once.
C25_ReturnedIsWhatWasStored ==
    RunReturned
       => /\ Len(metrics_history) - base = Len(ret[1])
          /\ \A k \in 1..Len(ret[1]) :
                \E j \in base + 1..Len(metrics_history) : metrics_history[j] = ret[1][k]
          /\ \A j \in base + 1..Len(metrics_history) :
                \E k \in 1..Len(ret[1]) : ret[1][k] = metrics_history[j]
          /\ Distinct(ret[1])

\* a fan-out returned two samples in the order opposite to the one they were
\* stored in: the store grew by two and the returned list has two samples
C25_Witness ==
    /\ mainpc = "conc_returned"
    /\ Len(metrics_history) - base = 2
    /\ Len(ret[1]) = 2
    /\ ret[1][1] = metrics_history[base + 2]
    /\ ret[1][2] = metrics_history[base + 1]

\* C26: in every reachable state the timestamps of the samples in
\* metrics_history are non-decreasing in insertion order, so that the first
\* and the last stored sample carry the earliest and the latest timestamp.
C26_TimestampsNonDecreasing ==
    /\ \A j, k \in 1..Len(metrics_history) :
          j < k => metrics_history[j].timestamp <= metrics_history[k].timestamp
    /\ Len(metrics_history) > 0
          => \A k \in 1..Len(metrics_history) :
                /\ metrics_history[1].timestamp <= metrics_history[k].timestamp
                /\ metrics_history[k].timestamp
                      <= metrics_history[Len(metrics_history)].timestamp

\* ceil(duration / 0.1), with the duration in ticks; 0 for a duration <= 0
PacingBound(d) == IF d <= 0 THEN 0 ELSE (d + StressSleep - 1) \div StressSleep

\* C27: when every request returns and the clock advances, a stress run
\* terminates; every iteration after the first begins only when the pacing
\* delay of the one before is over, so the k-th request begins no sooner than
\* (k - 1) iterations of one blocking measurement and one delay after the
\* start; the attempts never exceed ceil(duration / 0.1); with duration <= 0
\* no request is attempted and the returned list is empty.
C27_StressTerminatesBounded ==
    /\ StressRunning ~> mainpc = "stress_returned"
    /\ [](StressRunning \/ mainpc = "stress_returned"
             => /\ request_count <= PacingBound(duration_seconds)
                /\ RunRequests <= request_count
                /\ duration_seconds <= 0
                      => /\ request_count = 0
                         /\ RunRequests = 0
                         /\ results = <<>>
                         /\ mainpc = "stress_returned" => ret = << <<>> >>)
    /\ [][(StressRunning /\ request_count' = request_count + 1)
             => /\ request_count >= 1 => now >= wake
                /\ now - start_time >= request_count * (CpuInterval + StressSleep)
                /\ now - start_time < duration_seconds]_vars

\* a run of 0.4 s has returned after two attempts, the second begun after the
\* pacing delay of the first
C27_Witness ==
    /\ mainpc = "stress_returned"
    /\ duration_seconds = 4
    /\ request_count = 2
    /\ RunRequests = 2
    /\ total_time >= duration_seconds
====
